---- MODULE Spec2Model ----
(***************************************************************************)
(* ZeroBugAuthority backend (src/backend/main.py): the two request         *)
(* handlers review_code and rewrite_code, the provider call they make, and *)
(* the regex classifier parse_review_response.                             *)
(*                                                                         *)
(* Text is a sequence of tokens.  Each token stands for a fixed piece of   *)
(* text: "###" the heading marker, "NL" the newline character, " " one     *)
(* blank, "-" and "*" the bullets, "9" one decimal digit, "." a full stop, *)
(* "txt" a run of other characters, and one token per label spelling.  No  *)
(* token is a proper part of another, so a regex literal matches exactly   *)
(* at the tokens equal to it and "." (DOTALL) matches every token.         *)
(***************************************************************************)
EXTENDS Integers, Sequences, FiniteSets, TLC

VARIABLES client, pc, request, reply, calls, response,
          review_text, cpc, section, counts

vars == <<client, pc, request, reply, calls, response,
          review_text, cpc, section, counts>>

handler_vars == <<client, pc, request, reply, calls, response>>

classifier_vars == <<review_text, cpc, section, counts>>

\* ------------------------------------------------------------------ bounds

NumRequests == 2

MaxLines == 3

\* ------------------------------------------------------------------ text

NL == "NL"

HeadingMarker == "###"

Labels == {"Critical Issues", "High Priority", "Medium Priority", "Low Priority"}

\* The lines a provider reply is made of.
LineKinds ==
    { <<"###", " ", "Critical Issues">>,
      <<"###", " ", "High Priority">>,
      <<"###", " ", "Medium Priority">>,
      <<"###", " ", "Low Priority">>,
      <<"###", " ", "txt">>,
      <<"###", " ", "critical issues">>,
      <<"-", " ", "txt">>,
      <<"*", " ", "txt">>,
      <<"9", "9", ".", " ", "txt">>,
      <<" ", "-", " ", "txt">>,
      <<"txt">>,
      <<"-", " ", "txt", " ", "Critical Issues">>,
      <<>> }

RECURSIVE Join(_)
Join(ls) ==
    IF ls = <<>> THEN <<>>
    ELSE IF Len(ls) = 1 THEN ls[1]
    ELSE ls[1] \o <<NL>> \o Join(Tail(ls))

\* What a reply may open with before its sections: nothing, or a summary
\* section whose bullet names a severity label.
Preambles ==
    { <<>>,
      << <<"###", " ", "txt">>, <<"-", " ", "txt", " ", "Critical Issues">> >> }

\* The review texts: a preamble, then up to MaxLines lines.
Texts ==
    { Join(pre \o ls) :
        pre \in Preambles,
        ls \in UNION { [1..n -> LineKinds] : n \in 0..MaxLines } }

\* ------------------------------------------------------------------ regex

\* Least index >= from at which s holds tok, 0 when there is none.
find(s, tok, from) ==
    LET S == { i \in from..Len(s) : s[i] = tok }
    IN IF S = {} THEN 0 ELSE CHOOSE i \in S : \A j \in S : i <= j

\* Lower-casing of the label tokens (no other token holds a letter of a label).
Lower(tok) ==
    CASE tok = "Critical Issues" -> "critical issues"
      [] tok = "High Priority" -> "high priority"
      [] tok = "Medium Priority" -> "medium priority"
      [] tok = "Low Priority" -> "low priority"
      [] OTHER -> tok

\* A literal compiled with re.IGNORECASE: equal up to letter case.
literal_ignorecase(tok, label) == Lower(tok) = Lower(label)

\* A regex literal matches a token iff the token is that literal: re.search is
\* called with re.DOTALL only, so letter case counts.
literal(tok, label) == tok = label

find_label(s, label, from) ==
    LET S == { i \in from..Len(s) : literal(s[i], label) }
    IN IF S = {} THEN 0 ELSE CHOOSE i \in S : \A j \in S : i <= j

NoMatch == [matched |-> FALSE]

\* re.search(r'###.*?<label>.*?\n(.*?)(?=###|\Z)', text, re.DOTALL).
\* The search starts at the leftmost '###' (i).  With DOTALL the lazy '.*?'
\* runs over newlines, so the label is the first one anywhere after i (j) and
\* the '\n' the first one after that label (k); if either is missing from i,
\* it is missing from every later start too.  Group 1 is lazy and ends at the
\* first '###' after k, or at the end of the text (\Z).
re_search(label, text) ==
    LET i == find(text, HeadingMarker, 1)
        j == IF i = 0 THEN 0 ELSE find_label(text, label, i + 1)
        k == IF j = 0 THEN 0 ELSE find(text, NL, j + 1)
        m == IF k = 0 THEN 0 ELSE find(text, HeadingMarker, k + 1)
    IN IF k = 0 THEN NoMatch
       ELSE [matched |-> TRUE,
             group1 |-> SubSeq(text, k + 1, IF m = 0 THEN Len(text) ELSE m - 1)]

\* ^ under re.MULTILINE: the start of the string or just after a newline.
line_start(text, p) == p = 1 \/ text[p - 1] = NL

\* \d+\. at p: a run of digits from p, then a full stop.
RECURSIVE numbered_at(_, _)
numbered_at(text, p) ==
    /\ p < Len(text)
    /\ text[p] = "9"
    /\ \/ text[p + 1] = "."
       \/ numbered_at(text, p + 1)

\* One alternative of r'^\d+\.|^-|^\*' matches at p, after leading blanks too.
marker_at_lstrip(text, p) ==
    /\ line_start(text, p)
    /\ \E q \in p..Len(text) :
        /\ \A b \in p..(q - 1) : text[b] = " "
        /\ \/ numbered_at(text, q)
           \/ text[q] = "-"
           \/ text[q] = "*"

\* One alternative of r'^\d+\.|^-|^\*' matches at p.
marker_at(text, p) ==
    /\ line_start(text, p)
    /\ \/ numbered_at(text, p)
       \/ text[p] = "-"
       \/ text[p] = "*"

\* re.findall(r'^\d+\.|^-|^\*', text, re.MULTILINE): the match positions.  A
\* match never holds a newline, so the matches at two line starts never
\* overlap and each line start that matches is found.
findall(text) == { p \in 1..Len(text) : marker_at(text, p) }

\* What count_items gives when it dereferences a missing match.
AttributeError == -1

count_items_unguarded(sec) ==
    IF ~sec.matched THEN AttributeError ELSE Cardinality(findall(sec.group1))

count_items(sec) ==
    IF ~sec.matched THEN 0 ELSE Cardinality(findall(sec.group1))

search_all(text) == [l \in Labels |-> re_search(l, text)]

count_all(secs) ==
    LET c == [l \in Labels |-> count_items(secs[l])]
    IN IF \E l \in Labels : c[l] = AttributeError
       THEN [raised |-> TRUE]
       ELSE [raised |-> FALSE,
             critical_count |-> c["Critical Issues"],
             high_count |-> c["High Priority"],
             medium_count |-> c["Medium Priority"],
             low_count |-> c["Low Priority"]]

parse_review_response(text) == count_all(search_all(text))

NoCounts == [raised |-> FALSE, critical_count |-> 0, high_count |-> 0,
             medium_count |-> 0, low_count |-> 0]

\* ------------------------------------------------------------------ classifier run

ClassifierIdle ==
    /\ review_text = <<>>
    /\ cpc = "idle"
    /\ section = [l \in Labels |-> NoMatch]
    /\ counts = NoCounts

InitClassifier ==
    /\ review_text \in Texts
    /\ cpc = "search"
    /\ section = [l \in Labels |-> NoMatch]
    /\ counts = NoCounts

\* The four re.search calls.
search_sections ==
    /\ cpc = "search"
    /\ section' = search_all(review_text)
    /\ cpc' = "count"
    /\ UNCHANGED <<review_text, counts, handler_vars>>

\* The four count_items calls and the returned dict.
return_counts ==
    /\ cpc = "count"
    /\ counts' = count_all(section)
    /\ cpc' = "done"
    /\ UNCHANGED <<review_text, section, handler_vars>>

\* ------------------------------------------------------------------ requests

Requests == 1..NumRequests

Whitespace == {" ", NL}

\* Request bodies: code is a sequence over blank, newline and "x" (any
\* character that is not whitespace).
Codes == { <<>>, <<" ">>, <<NL, " ">>, <<"x">>, <<" ", "x", NL>> }

Languages == {"python"}

FocusAreas == { <<>>, <<"security", "performance">> }

CodeReviewRequest ==
    [endpoint : {"review"}, code : Codes, language : Languages,
     focus_areas : FocusAreas]

CodeRewriteRequest ==
    [endpoint : {"rewrite"}, code : Codes, language : Languages]

NoRequest == [endpoint |-> "none"]

NoReply == [kind |-> "none"]

NoResponse == [status |-> 0]

\* str.strip(): leading and trailing whitespace removed.
RECURSIVE lstrip(_)
lstrip(s) ==
    IF s # <<>> /\ Head(s) \in Whitespace THEN lstrip(Tail(s)) ELSE s

RECURSIVE rstrip(_)
rstrip(s) ==
    IF s # <<>> /\ s[Len(s)] \in Whitespace
    THEN rstrip(SubSeq(s, 1, Len(s) - 1))
    ELSE s

strip_nothing(s) == s

strip(s) == rstrip(lstrip(s))

\* ", ".join(focus_areas), or "all aspects" for the empty list.
RECURSIVE join_comma(_)
join_comma(areas) ==
    IF Len(areas) = 1 THEN areas
    ELSE <<areas[1], ", ">> \o join_comma(Tail(areas))

focus_str(areas) == IF areas # <<>> THEN join_comma(areas) ELSE <<"all aspects">>

\* The rendered prompts: the fixed template, with the request's fields in the
\* places the f-string puts them.
review_prompt(req) ==
    [template |-> "review", language |-> req.language,
     focus |-> focus_str(req.focus_areas), code |-> req.code]

rewrite_prompt(req) ==
    [template |-> "rewrite", language |-> req.language, code |-> req.code]

\* client.chat.completions.create(...): one user message and the fixed
\* generation parameters (temperature 0.3 and top_p 0.9, in hundredths).
create(prompt) ==
    [messages |-> << [role |-> "user", content |-> prompt] >>,
     model |-> "llama-3.3-70b-versatile",
     temperature |-> 30, max_tokens |-> 2000, top_p |-> 90]

\* What the provider hands back to one call: the call raises, or it returns a
\* completion with no choices, with a message whose content is None, or with
\* text content.
ProviderErrors == {"Connection error.", "Error code: 429"}

ReplyTexts ==
    { <<>>,
      <<"txt">>,
      Join(<< <<"###", " ", "Critical Issues">>, <<"-", " ", "txt">>,
              <<"###", " ", "Low Priority">>, <<"9", "9", ".", " ", "txt">> >>) }

ProviderOutcomes ==
    [kind : {"raise"}, err : ProviderErrors]
    \cup {[kind |-> "no_choices"], [kind |-> "content_none"]}
    \cup [kind : {"content"}, content : ReplyTexts]

Http400 == [status |-> 400, detail |-> <<"Code cannot be empty">>]

\* except Exception as e: HTTPException(500, f"Error calling Groq API: {str(e)}")
Http500(err) == [status |-> 500, detail |-> <<"Error calling Groq API: ", err>>]

\* The try block of review_code after the provider call has come back.
review_result(out) ==
    CASE out.kind = "raise" -> Http500(out.err)
      [] out.kind = "no_choices" -> Http500("list index out of range")
      [] out.kind = "content_none" ->
            Http500("expected string or bytes-like object, got 'NoneType'")
      [] out.kind = "content" ->
            LET c == parse_review_response(out.content)
            IN IF c.raised
               THEN Http500("'NoneType' object has no attribute 'group'")
               ELSE [status |-> 200, review |-> out.content,
                     critical_count |-> c.critical_count,
                     high_count |-> c.high_count,
                     medium_count |-> c.medium_count,
                     low_count |-> c.low_count]

\* The try block of rewrite_code after the provider call has come back; the
\* content is returned as it is, None included (null: the field is None).
rewrite_result(out) ==
    CASE out.kind = "raise" -> Http500(out.err)
      [] out.kind = "no_choices" -> Http500("list index out of range")
      [] out.kind = "content_none" -> [status |-> 200, null |-> TRUE, rewritten_code |-> <<>>]
      [] out.kind = "content" -> [status |-> 200, null |-> FALSE, rewritten_code |-> out.content]

\* ------------------------------------------------------------------ handlers

HandlersIdle ==
    /\ client = [api_key |-> "GROQ_API_KEY"]
    /\ pc = [r \in Requests |-> "idle"]
    /\ request = [r \in Requests |-> NoRequest]
    /\ reply = [r \in Requests |-> NoReply]
    /\ calls = [r \in Requests |-> <<>>]
    /\ response = [r \in Requests |-> NoResponse]

\* if not request.code.strip()
code_is_empty(req) == strip(req.code) = <<>>

\* review_code up to its provider call: validation, then the prompt and the
\* call.
review_code_call(r) ==
    /\ pc[r] = "idle"
    /\ \E req \in CodeReviewRequest :
        /\ request' = [request EXCEPT ![r] = req]
        /\ IF code_is_empty(req)
           THEN /\ response' = [response EXCEPT ![r] = Http400]
                /\ pc' = [pc EXCEPT ![r] = "done"]
                /\ UNCHANGED calls
           ELSE /\ calls' = [calls EXCEPT ![r] = Append(@, create(review_prompt(req)))]
                /\ pc' = [pc EXCEPT ![r] = "await"]
                /\ UNCHANGED response
    /\ UNCHANGED <<client, reply, classifier_vars>>

\* rewrite_code up to its provider call.
rewrite_code_call(r) ==
    /\ pc[r] = "idle"
    /\ \E req \in CodeRewriteRequest :
        /\ request' = [request EXCEPT ![r] = req]
        /\ IF code_is_empty(req)
           THEN /\ response' = [response EXCEPT ![r] = Http400]
                /\ pc' = [pc EXCEPT ![r] = "done"]
                /\ UNCHANGED calls
           ELSE /\ calls' = [calls EXCEPT ![r] = Append(@, create(rewrite_prompt(req)))]
                /\ pc' = [pc EXCEPT ![r] = "await"]
                /\ UNCHANGED response
    /\ UNCHANGED <<client, reply, classifier_vars>>

\* A retrying handler: a call that raised is made once more.
review_code_return_retry(r) ==
    /\ pc[r] = "await"
    /\ request[r].endpoint = "review"
    /\ \E out \in ProviderOutcomes :
        /\ reply' = [reply EXCEPT ![r] = out]
        /\ IF out.kind = "raise" /\ Len(calls[r]) < 2
           THEN /\ calls' = [calls EXCEPT ![r] = Append(@, @[1])]
                /\ UNCHANGED <<pc, response>>
           ELSE /\ response' = [response EXCEPT ![r] = review_result(out)]
                /\ pc' = [pc EXCEPT ![r] = "done"]
                /\ UNCHANGED calls
    /\ UNCHANGED <<client, request, classifier_vars>>

\* A handler that keeps its result in one module-level variable: every
\* request that has been answered sees the result written last.
review_code_return_global(r) ==
    /\ pc[r] = "await"
    /\ request[r].endpoint = "review"
    /\ \E out \in ProviderOutcomes :
        /\ reply' = [reply EXCEPT ![r] = out]
        /\ response' = [q \in Requests |->
                          IF q = r \/ pc[q] = "done" THEN review_result(out)
                          ELSE response[q]]
        /\ pc' = [pc EXCEPT ![r] = "done"]
    /\ UNCHANGED <<client, request, calls, classifier_vars>>

\* review_code from the provider's answer to the response.
review_code_return(r) ==
    /\ pc[r] = "await"
    /\ request[r].endpoint = "review"
    /\ \E out \in ProviderOutcomes :
        /\ reply' = [reply EXCEPT ![r] = out]
        /\ response' = [response EXCEPT ![r] = review_result(out)]
        /\ pc' = [pc EXCEPT ![r] = "done"]
    /\ UNCHANGED <<client, request, calls, classifier_vars>>

\* rewrite_code from the provider's answer to the response.
rewrite_code_return(r) ==
    /\ pc[r] = "await"
    /\ request[r].endpoint = "rewrite"
    /\ \E out \in ProviderOutcomes :
        /\ reply' = [reply EXCEPT ![r] = out]
        /\ response' = [response EXCEPT ![r] = rewrite_result(out)]
        /\ pc' = [pc EXCEPT ![r] = "done"]
    /\ UNCHANGED <<client, request, calls, classifier_vars>>

\* The response is sent and the request's objects are dropped.
finish(r) ==
    /\ pc[r] = "done"
    /\ pc' = [pc EXCEPT ![r] = "idle"]
    /\ request' = [request EXCEPT ![r] = NoRequest]
    /\ reply' = [reply EXCEPT ![r] = NoReply]
    /\ calls' = [calls EXCEPT ![r] = <<>>]
    /\ response' = [response EXCEPT ![r] = NoResponse]
    /\ UNCHANGED <<client, classifier_vars>>

\* ------------------------------------------------------------------ specifications

Init == HandlersIdle /\ ClassifierIdle

Next ==
    \/ \E r \in Requests : review_code_call(r)
    \/ \E r \in Requests : rewrite_code_call(r)
    \/ \E r \in Requests : review_code_return(r)
    \/ \E r \in Requests : rewrite_code_return(r)
    \/ \E r \in Requests : finish(r)

Spec == Init /\ [][Next]_vars

InitParse == HandlersIdle /\ InitClassifier

NextParse ==
    \/ search_sections
    \/ return_counts

SpecParse == InitParse /\ [][NextParse]_vars

\* ------------------------------------------------------------------ reading a text by lines

\* The lines of a text: the runs between newlines.
RECURSIVE SplitLines(_)
SplitLines(s) ==
    IF s = <<>> THEN << <<>> >>
    ELSE LET rest == SplitLines(Tail(s))
         IN IF Head(s) = NL THEN << <<>> >> \o rest
            ELSE << <<Head(s)>> \o rest[1] >> \o Tail(rest)

Holds(line, tok) == \E i \in 1..Len(line) : line[i] = tok

IsHeadingLine(line) == line # <<>> /\ line[1] = "###"

IsHeadingFor(line, label) == IsHeadingLine(line) /\ Holds(line, label)

\* The line begins, at column 0, with '-', '*' or digits and a full stop.
IsMarkerLine(line) ==
    /\ line # <<>>
    /\ \/ line[1] \in {"-", "*"}
       \/ \E n \in 1..(Len(line) - 1) :
            /\ \A i \in 1..n : line[i] = "9"
            /\ line[n + 1] = "."

RECURSIVE DropBlanks(_)
DropBlanks(line) ==
    IF line # <<>> /\ Head(line) = " " THEN DropBlanks(Tail(line)) ELSE line

\* The line begins with a marker once its leading blanks are dropped.
IsIndentedMarkerLine(line) == IsMarkerLine(DropBlanks(line))

MarkerLines(ls) == Cardinality({ i \in 1..Len(ls) : IsMarkerLine(ls[i]) })

IndentedMarkerLines(ls) ==
    Cardinality({ i \in 1..Len(ls) : IsIndentedMarkerLine(ls[i]) })

\* The lines after line h, up to the next line that holds a heading marker.
SectionLines(ls, h) ==
    LET next == { i \in (h + 1)..Len(ls) : Holds(ls[i], "###") }
        last == IF next = {} THEN Len(ls)
                ELSE (CHOOSE i \in next : \A j \in next : i <= j) - 1
    IN SubSeq(ls, h + 1, last)

HeadingLines(ls, label) == { i \in 1..Len(ls) : IsHeadingFor(ls[i], label) }

FirstHeading(ls, label) ==
    CHOOSE i \in HeadingLines(ls, label) : \A j \in HeadingLines(ls, label) : i <= j

\* The count a line-by-line reading gives a label: the marker lines of the
\* section its first heading line opens, 0 without a heading line.
CountByLines(ls, label) ==
    IF HeadingLines(ls, label) = {} THEN 0
    ELSE MarkerLines(SectionLines(ls, FirstHeading(ls, label)))

CountOf(label) ==
    CASE label = "Critical Issues" -> counts.critical_count
      [] label = "High Priority" -> counts.high_count
      [] label = "Medium Priority" -> counts.medium_count
      [] label = "Low Priority" -> counts.low_count

Lines == SplitLines(review_text)

ParseDone == cpc = "done"

IsBlank(code) == \A i \in 1..Len(code) : code[i] \in {" ", NL}

Active(r) == request[r].endpoint # "none"

Validated(r) == Active(r) /\ ~IsBlank(request[r].code)

\* ------------------------------------------------------------------ C1

\* C1: a request whose code is empty or all whitespace, on either endpoint,
\* ends at once with 400 'Code cannot be empty' and no provider call is made
\* for it; the response is never a 500.
C1_BlankCodeIs400 ==
    \A r \in Requests :
        (Active(r) /\ IsBlank(request[r].code)) =>
            /\ pc[r] = "done"
            /\ response[r] = Http400
            /\ calls[r] = <<>>
            /\ reply[r] = NoReply

C1_Witness ==
    \E r, q \in Requests :
        /\ request[r].endpoint = "review" /\ request[r].code = <<NL, " ">>
        /\ request[q].endpoint = "rewrite" /\ request[q].code = <<>>
        /\ response[r].status = 400 /\ response[q].status = 400

\* ------------------------------------------------------------------ C2

FailedReply(r) == reply[r].kind \in {"raise", "no_choices", "content_none"}

\* C2: with non-empty code, any failure of the provider call (it raises, or
\* the completion has no choices or no text content) ends the request with
\* 500 and the underlying error text; never with 200.
C2_FailureIs500 ==
    \A r \in Requests :
        (pc[r] = "done" /\ Validated(r) /\ FailedReply(r)) =>
            /\ response[r].status = 500
            /\ Len(response[r].detail) = 2
            /\ reply[r].kind = "raise" => response[r].detail[2] = reply[r].err

\* ------------------------------------------------------------------ C3

\* C3: a request that passed validation has made exactly one provider call
\* while it waits and when its response is produced, whatever the call gave
\* and whatever other requests (identical ones included) have done.
C3_ExactlyOneCall ==
    \A r \in Requests :
        /\ pc[r] = "await" => Len(calls[r]) = 1
        /\ (pc[r] = "done" /\ Validated(r)) =>
              /\ Len(calls[r]) = 1
              /\ reply[r] # NoReply

C3_Witness ==
    \E r, q \in Requests :
        /\ r # q
        /\ pc[r] = "done" /\ pc[q] = "done"
        /\ request[r] = request[q]
        /\ reply[r].kind = "raise" /\ reply[q].kind = "content"
        /\ Len(calls[r]) = 1 /\ Len(calls[q]) = 1
        /\ calls[r] = calls[q]

\* ------------------------------------------------------------------ C4

IsSectionHeading(line) == \E l \in Labels : line = <<"###", " ", l>>

\* A text in the requested format: a '### <label>' line first, every other
\* line a '### <label>' line or a marker line at column 0, no label twice.
RequestedFormat(ls) ==
    /\ IsSectionHeading(ls[1])
    /\ \A i \in 1..Len(ls) : IsSectionHeading(ls[i]) \/ IsMarkerLine(ls[i])
    /\ \A l \in Labels : Cardinality(HeadingLines(ls, l)) <= 1

\* C4: for a text in the requested format every label gets the number of
\* marker lines of its section, and 0 when it has no section.
C4_FormatCounts ==
    (ParseDone /\ RequestedFormat(Lines)) =>
        /\ ~counts.raised
        /\ \A l \in Labels : CountOf(l) = CountByLines(Lines, l)

\* ------------------------------------------------------------------ C5

OneRequestStep ==
    /\ client' = client
    /\ \E r \in Requests :
         \A q \in Requests \ {r} :
            /\ pc'[q] = pc[q]
            /\ request'[q] = request[q]
            /\ reply'[q] = reply[q]
            /\ calls'[q] = calls[q]
            /\ response'[q] = response[q]

\* Requests with the same input and the same provider reply have the same
\* response.
OwnInputDecides ==
    \A r, q \in Requests :
        (pc[r] = "done" /\ pc[q] = "done"
            /\ request[r] = request[q] /\ reply[r] = reply[q])
        => response[r] = response[q]

\* C6: under every interleaving a response is decided by the request's own
\* input and the provider's reply to it, no step touches another request's
\* objects, and the client is never modified.
C6_Isolation == []OwnInputDecides /\ [][OneRequestStep]_vars

C6_Witness ==
    \E r, q \in Requests :
        /\ r # q
        /\ request[r] = request[q]
        /\ pc[r] = "done" /\ response[r].status = 200
        /\ pc[q] = "await"

\* ------------------------------------------------------------------ C7

\* C7 as stated: the count of a captured section is the number of its lines
\* that begin, after leading whitespace, with a marker.
C7_IndentedMarkersCount ==
    ParseDone =>
        \A l \in Labels :
            section[l].matched =>
                CountOf(l) = IndentedMarkerLines(SplitLines(section[l].group1))

\* C7 amended: the count of a captured section is the number of its lines
\* that begin at column 0 with a marker; an indented marker line and a
\* continuation line add nothing.
C7_ColumnZeroMarkersCount ==
    ParseDone =>
        \A l \in Labels :
            section[l].matched =>
                CountOf(l) = MarkerLines(SplitLines(section[l].group1))

C7_Witness ==
    /\ ParseDone
    /\ section["Critical Issues"].matched
    /\ SplitLines(section["Critical Issues"].group1) =
          << <<"9", "9", ".", " ", "txt">>, <<" ", "-", " ", "txt">>, <<"txt">> >>
    /\ counts.critical_count = 1

\* ------------------------------------------------------------------ C8

\* C8: a label's section is opened only by a heading line that holds the
\* label, and runs to the next heading marker; without such a line the
\* label's count is 0.
C8_HeadingLineOpens ==
    ParseDone =>
        \A l \in Labels : CountOf(l) = CountByLines(Lines, l)

\* ------------------------------------------------------------------ C9

\* C9: with two or more heading lines for a label, the label's count is the
\* number of marker lines of the first one's section, and nothing raises.
C9_FirstHeadingWins ==
    ParseDone =>
        /\ ~counts.raised
        /\ \A l \in Labels :
              Cardinality(HeadingLines(Lines, l)) >= 2 =>
                  CountOf(l) = MarkerLines(SectionLines(Lines, FirstHeading(Lines, l)))

\* ------------------------------------------------------------------ C10

\* The text with every label spelled in its fixed letter case.
Canonical(text) ==
    [i \in 1..Len(text) |->
        IF text[i] = "critical issues" THEN "Critical Issues" ELSE text[i]]

\* C10 as stated: a heading that differs from the fixed label only in letter
\* case is counted exactly as the canonically cased heading.
C10_CaseTolerant ==
    ParseDone => counts = parse_review_response(Canonical(review_text))

\* C10 amended: matching is case-sensitive; when the label appears only in
\* another letter case, its heading opens no section and the count is 0.
C10_CaseSensitive ==
    (ParseDone /\ ~Holds(review_text, "Critical Issues")) =>
        /\ ~section["Critical Issues"].matched
        /\ counts.critical_count = 0

C10_Witness ==
    /\ ParseDone
    /\ Lines = << <<"###", " ", "critical issues">>, <<"-", " ", "txt">>,
                  <<"*", " ", "txt">> >>
    /\ counts.critical_count = 0

====
